---- MODULE Spec2Model ----
(***************************************************************************)
(* wildboar/distance/_distance.pyx: the facade operations distance() and   *)
(* matches(), the measure classes DistanceMeasure, ScaledDistanceMeasure   *)
(* and FuncDistanceMeasure, and the TSCopy / TSView / TSDatabase helpers.  *)
(*                                                                         *)
(* Representation of numbers.  Series values are small integers.  A        *)
(* distance sqrt(n) is represented by its radicand n, so that comparing    *)
(* two distances is comparing two integers, exactly.  A threshold is a     *)
(* record [inf, sq]: +infinity, or the real sqrt(sq).                      *)
(*                                                                         *)
(* Pointers are records [st, id]: st = "uninit" (a C local never           *)
(* assigned), "null", or "buf" with id the index of the buffer in heap.    *)
(***************************************************************************)
EXTENDS Integers, Sequences, FiniteSets, TLC

\* ------------------------------------------------------------------ bounds
MaxSamples == 2
MaxDims == 2
MaxT == 3
MaxBatch == 2
\* the number of times a caller passes one view to ts_view_free
MaxViewFrees == 2

\* sizeof(double): the element size of a float64 ndarray
ItemSize == 8

\* ------------------------------------------------------------- input sets
DataPool == <<1, 0, 1, 0, 2, 0, 0, 1, 0, 1, 1, 2, 0>>
PatternPool == <<0, 1, 0, 0, 1, 1, 2, 0, 1>>
DataFills == {0, 3}
PatternFills == {0, 4}

\* the n elements of pool that follow position k, wrapping around
Fill(pool, k, n) == [p \in 1..n |-> pool[((k + p - 1) % Len(pool)) + 1]]

RECURSIVE Prod(_)
Prod(q) == IF q = <<>> THEN 1 ELSE Head(q) * Prod(Tail(q))

\* the shapes of the arrays a caller passes as data: rank 1 to rank 4
DataShapes ==
    {<<MaxT>>}
    \cup {<<n, MaxT>> : n \in 1..MaxSamples}
    \cup {<<n, d, MaxT>> : n \in 1..MaxSamples, d \in 1..MaxDims}
    \cup {<<1, 1, 1, MaxT>>}

\* a caller's array: its shape and its elements in row-major order
RawData ==
    {[shape |-> sh, buf |-> Fill(DataPool, k, Prod(sh))] :
        sh \in DataShapes, k \in DataFills}

\* a caller's shapelet: a rank-1 array of 1..MaxT+1 elements
RawShapelets ==
    {Fill(PatternPool, k, len) : k \in PatternFills, len \in 1..(MaxT + 1)}

\* the values a read outside every buffer may yield
GarbageValues == {0, 2}
\* the values an uninitialised size_t local may hold
GarbageIndexes == {0, 5}

Thresholds ==
    {[inf |-> FALSE, sq |-> 0], [inf |-> FALSE, sq |-> 1],
     [inf |-> FALSE, sq |-> 3], [inf |-> TRUE, sq |-> 0]}

\* the metric arguments of a call: names of _DISTANCE_MEASURE whose classes
\* are modelled, a name that is not registered, and a user callable
MetricArgs == {"euclidean", "manhattan", "callable"}

\* the sample arguments of a call on data of n samples
SampleSeqs(n) == UNION {[1..k -> 0..n] : k \in 1..MaxBatch}
SampleArgs(n) ==
    {[kind |-> "none", val |-> 0, seq |-> <<>>, container |-> "none"]}
    \cup {[kind |-> "int", val |-> v, seq |-> <<>>, container |-> "none"] :
            v \in (0 - 1)..n}
    \cup {[kind |-> "seq", val |-> 0, seq |-> q, container |-> "list"] :
            q \in SampleSeqs(n)}

\* ---------------------------------------------------------------- pointers
NULL == [st |-> "null", id |-> 0]
Uninit == [st |-> "uninit", id |-> 0]
Buf(id) == [st |-> "buf", id |-> id]
\* a pointer no allocation returned
Wild == [st |-> "wild", id |-> 0]
\* the values an uninitialised pointer field may hold
GarbagePointers == {NULL, Wild}

\* not-a-number, and a rational num/den (den > 0)
NAN == [nan |-> TRUE, num |-> 0, den |-> 1]
Rat(num, den) == [nan |-> FALSE, num |-> num, den |-> den]

\* ------------------------------------------------------------------- state
VARIABLES
    op,        \* the operation in progress
    pc,        \* the statement the operation is at
    x,         \* the validated data array (np.ndarray x)
    s,         \* the validated shapelet (np.ndarray s)
    arg,       \* the Python-level arguments of the call
    sd,        \* TSDatabase sd
    measure,   \* the class of distance_measure
    shape,     \* TSCopy shape
    heap,      \* the buffers malloc has returned, in order
    loc,       \* the C and Python locals of the call
    ret,       \* how the call ended
    log        \* the measure computations invoked, in order

vars == <<op, pc, x, s, arg, sd, measure, shape, heap, loc, ret, log>>

\* --------------------------------------------------------- array validation
\* strides in bytes of a C-contiguous float64 array of this shape
CStrides(sh) == [j \in 1..Len(sh) |-> ItemSize * Prod(SubSeq(sh, j + 1, Len(sh)))]

NdArray(sh, buf) ==
    [ndim |-> Len(sh), shape |-> sh, strides |-> CStrides(sh),
     itemsize |-> ItemSize, buf |-> buf]

_validate_data(data) ==
    IF Len(data.shape) = 1
    THEN NdArray(<<1, data.shape[1]>>, data.buf)
    ELSE NdArray(data.shape, data.buf)

NoDatabase ==
    [n_samples |-> 0, n_timestep |-> 0, n_dims |-> 0,
     sample_stride |-> 0, dim_stride |-> 0, timestep_stride |-> 0]

\* ts_database_new reading the stride of the dimensions from the last axis
ts_database_new_last_axis(data) ==
    IF data.ndim < 2 \/ data.ndim > 3
    THEN [err |-> "ValueError", sd |-> NoDatabase]
    ELSE [err |-> "",
          sd |-> [n_samples |-> data.shape[1],
                  n_timestep |-> data.shape[data.ndim],
                  sample_stride |-> data.strides[1] \div data.itemsize,
                  timestep_stride |-> data.strides[data.ndim] \div data.itemsize,
                  n_dims |-> IF data.ndim = 3 THEN data.shape[data.ndim - 1] ELSE 1,
                  dim_stride |-> IF data.ndim = 3
                                 THEN data.strides[data.ndim] \div data.itemsize
                                 ELSE 0]]

\* [err, sd]: err = "ValueError" for a rank that is not 2 or 3
ts_database_new(data) ==
    IF data.ndim < 2 \/ data.ndim > 3
    THEN [err |-> "ValueError", sd |-> NoDatabase]
    ELSE [err |-> "",
          sd |-> [n_samples |-> data.shape[1],
                  n_timestep |-> data.shape[data.ndim],
                  sample_stride |-> data.strides[1] \div data.itemsize,
                  timestep_stride |-> data.strides[data.ndim] \div data.itemsize,
                  n_dims |-> IF data.ndim = 3 THEN data.shape[data.ndim - 1] ELSE 1,
                  dim_stride |-> IF data.ndim = 3
                                 THEN data.strides[data.ndim - 1] \div data.itemsize
                                 ELSE 0]]

\* TRUE when the check raises ValueError
_check_sample(sample, n_samples) == sample < 0 \/ sample >= n_samples

\* TRUE when the check raises ValueError
_check_dim(dim, ndims) == dim < 0 \/ dim >= ndims

\* ------------------------------------------------------- reading the buffers
InBuf(buf, p) == p >= 0 /\ p < Len(buf)

\* the offset of element (index, dim, timestep 0) in the flat buffer
SampleOffset(td, t_index, dim) == t_index * td.sample_stride + dim * td.dim_stride

\* TRUE when reading n_timestep elements from off leaves the buffer
ReadFaults(td, buf, off) ==
    \E i \in 0..(td.n_timestep - 1) : ~InBuf(buf, off + td.timestep_stride * i)

\* what reading n_timestep elements from off may yield: the elements, with
\* any value where the read leaves the buffer
ReadRows(td, buf, off) ==
    IF ~ReadFaults(td, buf, off)
    THEN {[i \in 1..td.n_timestep |-> buf[off + td.timestep_stride * (i - 1) + 1]]}
    ELSE {r \in [1..td.n_timestep -> GarbageValues \cup {buf[j] : j \in 1..Len(buf)}] :
            \A i \in 1..td.n_timestep :
                LET p == off + td.timestep_stride * (i - 1)
                IN  IF InBuf(buf, p) THEN r[i] = buf[p + 1] ELSE r[i] \in GarbageValues}

\* the elements of the pattern copy
PatternData(h, tc) == h[tc.data.id].data

\* ----------------------------------------------------------------- numbers
RECURSIVE SumSq(_, _, _)
\* sum over i..Len(p) of (p[i] - w[i])^2
SumSq(p, w, i) ==
    IF i > Len(p) THEN 0 ELSE (p[i] - w[i]) * (p[i] - w[i]) + SumSq(p, w, i + 1)

RECURSIVE Sum(_, _)
Sum(q, i) == IF i > Len(q) THEN 0 ELSE q[i] + Sum(q, i + 1)

RECURSIVE SumOfSquares(_, _)
SumOfSquares(q, i) == IF i > Len(q) THEN 0 ELSE q[i] * q[i] + SumOfSquares(q, i + 1)

\* the window [o, o + len) of a row, o counted from 0
Window(row, o, len) == SubSeq(row, o + 1, o + len)

\* distance d (a radicand) is strictly below the threshold
Below(d, threshold) == threshold.inf \/ d < threshold.sq

\* -------------------------------------------------- outcomes of a cdef call
\* kind "ok": returned val (and wrote idx through return_index if idx_written);
\* kind "raise": the exception exc propagates; kind "crash": the process dies
Ok(val, idx_written, idx) ==
    [kind |-> "ok", exc |-> "", val |-> val, idx_written |-> idx_written, idx |-> idx]
Raise(exc) ==
    [kind |-> "raise", exc |-> exc, val |-> 0, idx_written |-> FALSE, idx |-> 0]
Crash ==
    [kind |-> "crash", exc |-> "SIGSEGV", val |-> 0, idx_written |-> FALSE, idx |-> 0]

\* An exception raised inside a cdef function that returns a C double and
\* declares no except clause: the Cython 0.29 build prints it and returns 0,
\* the Cython 3 build propagates it.
Unraisable(exc) == {Ok(0, FALSE, 0), Raise(exc)}

\* ------------------------------------------------------- the user callable
\* a callable defined on two numeric sequences of equal length
UserFunc(a, b) ==
    IF Len(a) # Len(b)
    THEN [exc |-> "ValueError", val |-> 0]
    ELSE [exc |-> "", val |-> SumSq(a, b, 1)]

\* -------------------------------------------------------------- measures
\* DistanceMeasure.ts_copy_sub_distance: not implemented
DistanceMeasure_ts_copy_sub_distance == Unraisable("NotImplementedError")

\* DistanceMeasure.ts_view_sub_distance: not implemented
DistanceMeasure_ts_view_sub_distance == Unraisable("NotImplementedError")

\* FuncDistanceMeasure.ts_copy_sub_distance: fills x_buffer with the pattern
\* and y_buffer with the whole sample, calls func(x_buffer[:length], y_buffer)
FuncDistanceMeasure_ts_copy_sub_distance(tc, td, buf, h, t_index) ==
    LET sample_offset == SampleOffset(td, t_index, tc.dim)
    IN  (IF tc.data.st # "buf" \/ ReadFaults(td, buf, sample_offset)
         THEN {Crash} ELSE {})
        \cup
        (IF tc.data.st # "buf" THEN {}
         ELSE UNION {
            LET r == UserFunc(PatternData(h, tc), y_buffer)
            IN  IF r.exc # "" THEN Unraisable(r.exc) ELSE {Ok(r.val, FALSE, 0)}
            : y_buffer \in ReadRows(td, buf, sample_offset)})

\* the lengths of the two arguments of the call of func in
\* FuncDistanceMeasure.ts_copy_sub_distance / ts_view_sub_distance:
\* x_buffer[:length] of the n_timestep elements of x_buffer, and y_buffer
FuncDistanceMeasure_func_args(length, td) ==
    [x |-> IF length < td.n_timestep THEN length ELSE td.n_timestep,
     y |-> td.n_timestep]

\* FuncDistanceMeasure.ts_view_sub_distance: fills x_buffer with the slice of
\* the view and y_buffer with the whole sample, calls
\* func(x_buffer[:length], y_buffer)
FuncDistanceMeasure_ts_view_sub_distance(tv, td, buf, t_index) ==
    LET sample_offset == SampleOffset(td, t_index, tv.dim)
        shapelet_offset == tv.index * td.sample_stride + tv.dim * td.dim_stride
                           + tv.start * td.timestep_stride
        x_buffer == [i \in 1..tv.length |->
                        buf[shapelet_offset + td.timestep_stride * (i - 1) + 1]]
    IN  IF ReadFaults(td, buf, sample_offset)
        THEN {Crash}
        ELSE UNION {
            LET r == UserFunc(x_buffer, y_buffer)
            IN  IF r.exc # "" THEN Unraisable(r.exc) ELSE {Ok(r.val, FALSE, 0)}
            : y_buffer \in ReadRows(td, buf, sample_offset)}

\* distance_measure.ts_view_sub_distance(&tv, &td, t_index)
ts_view_sub_distance(m, tv, td, buf, t_index) ==
    IF m = "FuncDistanceMeasure"
    THEN FuncDistanceMeasure_ts_view_sub_distance(tv, td, buf, t_index)
    ELSE DistanceMeasure_ts_view_sub_distance

\* the distance between pattern p and the window of row at offset o
WindowDistance(p, row, o) == SumSq(p, Window(row, o, Len(p)), 1)

\* the lowest offset of the minimum distance over the offsets 0..T-L
BestOffset(p, row) ==
    LET offsets == 0..(Len(row) - Len(p))
    IN  CHOOSE o \in offsets :
            /\ \A q \in offsets : WindowDistance(p, row, o) <= WindowDistance(p, row, q)
            /\ \A q \in offsets :
                WindowDistance(p, row, q) = WindowDistance(p, row, o) => o <= q

\* EuclideanDistance.ts_copy_sub_distance: the best window of the sample
EuclideanDistance_ts_copy_sub_distance(tc, td, buf, h, t_index) ==
    LET sample_offset == SampleOffset(td, t_index, tc.dim)
    IN  (IF tc.data.st # "buf" \/ ReadFaults(td, buf, sample_offset)
         THEN {Crash} ELSE {})
        \cup
        (IF tc.data.st # "buf" THEN {}
         ELSE IF tc.length > td.n_timestep THEN {Raise("ValueError")}
         ELSE {LET p == PatternData(h, tc)
                   o == BestOffset(p, row)
               IN  Ok(WindowDistance(p, row, o), TRUE, o)
               : row \in ReadRows(td, buf, sample_offset)})

\* distance_measure.ts_copy_sub_distance(&shape, &sd, t_index, &min_index)
ts_copy_sub_distance(m, tc, td, buf, h, t_index) ==
    IF m = "FuncDistanceMeasure"
    THEN FuncDistanceMeasure_ts_copy_sub_distance(tc, td, buf, h, t_index)
    ELSE IF m = "EuclideanDistance"
    THEN EuclideanDistance_ts_copy_sub_distance(tc, td, buf, h, t_index)
    ELSE DistanceMeasure_ts_copy_sub_distance

\* distance_measure.ts_copy_distance(&shape, &sd, t_index): the base class and
\* FuncDistanceMeasure call ts_copy_sub_distance without a return_index
ts_copy_distance(m, tc, td, buf, h, t_index) ==
    {[o EXCEPT !.idx_written = FALSE, !.idx = 0] :
        o \in ts_copy_sub_distance(m, tc, td, buf, h, t_index)}

\* ------------------------------------------------------ threshold matches
\* outcomes of ts_copy_sub_matches: when written, the call allocated the two
\* buffers, filled them with offsets and dists and set n_matches
Matched(offsets, dists) ==
    [kind |-> "ok", exc |-> "", written |-> TRUE, offsets |-> offsets, dists |-> dists]
MatchRaise(exc) ==
    [kind |-> "raise", exc |-> exc, written |-> FALSE, offsets |-> <<>>, dists |-> <<>>]
MatchCrash ==
    [kind |-> "crash", exc |-> "SIGSEGV", written |-> FALSE, offsets |-> <<>>,
     dists |-> <<>>]

\* ts_copy_sub_matches declared without "except -1": the exception is printed
\* and the call returns 0 with matches, distances and n_matches untouched
DistanceMeasure_ts_copy_sub_matches_noexcept ==
    {[kind |-> "ok", exc |-> "", written |-> FALSE, offsets |-> <<>>, dists |-> <<>>]}

\* DistanceMeasure.ts_copy_sub_matches (except -1): the exception propagates
DistanceMeasure_ts_copy_sub_matches == {MatchRaise("NotImplementedError")}

RECURSIVE MatchingOffsets(_, _, _, _)
\* the offsets o..T-L, ascending, whose window is strictly below the threshold
MatchingOffsets(p, row, threshold, o) ==
    IF o > Len(row) - Len(p) THEN <<>>
    ELSE (IF Below(WindowDistance(p, row, o), threshold) THEN <<o>> ELSE <<>>)
         \o MatchingOffsets(p, row, threshold, o + 1)

\* EuclideanDistance.ts_copy_sub_matches
EuclideanDistance_ts_copy_sub_matches(tc, td, buf, h, t_index, threshold) ==
    LET sample_offset == SampleOffset(td, t_index, tc.dim)
    IN  (IF tc.data.st # "buf" \/ ReadFaults(td, buf, sample_offset)
         THEN {MatchCrash} ELSE {})
        \cup
        (IF tc.data.st # "buf" THEN {}
         ELSE IF tc.length > td.n_timestep THEN {MatchRaise("ValueError")}
         ELSE {LET p == PatternData(h, tc)
                   offsets == MatchingOffsets(p, row, threshold, 0)
               IN  Matched(offsets,
                           [j \in 1..Len(offsets) |-> WindowDistance(p, row, offsets[j])])
               : row \in ReadRows(td, buf, sample_offset)})

\* distance_measure.ts_copy_sub_matches(&shape, &sd, t_index, threshold,
\*                                      &matches, &distances, &n_matches)
ts_copy_sub_matches(m, tc, td, buf, h, t_index, threshold) ==
    IF m = "EuclideanDistance"
    THEN EuclideanDistance_ts_copy_sub_matches(tc, td, buf, h, t_index, threshold)
    ELSE DistanceMeasure_ts_copy_sub_matches

\* a Python None, and an ndarray
None == [none |-> TRUE, a |-> <<>>]
Array(a) == [none |-> FALSE, a |-> a]

\* _new_match_array with the guard n_matches > 1
_new_match_array_guard(matches, n_matches) ==
    IF n_matches > 1
    THEN Array([i \in 1..n_matches |-> matches[i]])
    ELSE None

\* _new_match_array(matches, n_matches), matches the elements of the buffer
_new_match_array(matches, n_matches) ==
    IF n_matches > 0
    THEN Array([i \in 1..n_matches |-> matches[i]])
    ELSE None

\* _new_distance_array(distances, n_matches)
_new_distance_array(distances, n_matches) ==
    IF n_matches > 0
    THEN Array([i \in 1..n_matches |-> distances[i]])
    ELSE None

\* DistanceMeasure.support_unaligned / FuncDistanceMeasure.support_unaligned
support_unaligned(m) == FALSE

\* ------------------------------------------------------------------- heap
\* malloc: a new live buffer holding data, or NULL when ok is FALSE
malloc(h, kind, data, ok) ==
    IF ok
    THEN [heap |-> Append(h, [kind |-> kind, live |-> TRUE, frees |-> 0, data |-> data]),
          ptr |-> Buf(Len(h) + 1)]
    ELSE [heap |-> h, ptr |-> NULL]

\* free(ptr): free(NULL) does nothing
free(h, ptr) ==
    IF ptr.st = "buf"
    THEN [h EXCEPT ![ptr.id].live = FALSE, ![ptr.id].frees = @ + 1]
    ELSE h

\* ------------------------------------------------------- pattern copies
NoCopy == [dim |-> 0, length |-> 0, mean |-> NAN, std |-> NAN, data |-> Uninit]

\* DistanceMeasure.init_ts_copy_from_ndarray: [status, tc, heap]
init_ts_copy_from_ndarray(h, arr, dim, ok) ==
    LET m == malloc(h, "copy", arr, ok)
        tc == [dim |-> dim, length |-> Len(arr), mean |-> NAN, std |-> NAN,
               data |-> m.ptr]
    IN  IF m.ptr = NULL
        THEN [status |-> 0 - 1, tc |-> tc, heap |-> m.heap]
        ELSE [status |-> 0, tc |-> tc, heap |-> m.heap]

\* ------------------------------------------------------------------ views
\* a TSView struct no initialiser has touched
NoView ==
    [index |-> 0, start |-> 0, length |-> 0, dim |-> 0, mean |-> NAN, std |-> NAN,
     extra |-> Uninit]

\* the elements of the database the view refers to
ViewSlice(tv, td, buf) ==
    LET shapelet_offset == tv.index * td.sample_stride + tv.dim * td.dim_stride
                           + tv.start * td.timestep_stride
    IN  [i \in 1..tv.length |-> buf[shapelet_offset + (i - 1) * td.timestep_stride + 1]]

\* ts_view_init: extra is not assigned
ts_view_init(tv) ==
    [tv EXCEPT !.start = 0, !.length = 0, !.dim = 0, !.mean = NAN, !.std = NAN,
               !.index = 0]

\* ts_view_free, garbage the value an extra that was never assigned holds.
\* [wild, heap, tv]: wild when free was given a pointer no allocation returned
ts_view_free(h, tv, garbage) ==
    LET extra == IF tv.extra.st = "uninit" THEN garbage ELSE tv.extra
    IN  IF extra = NULL
        THEN [wild |-> FALSE, heap |-> h, tv |-> [tv EXCEPT !.extra = extra]]
        ELSE [wild |-> extra.st # "buf",
              heap |-> free(h, extra),
              tv |-> [tv EXCEPT !.extra = NULL]]

\* DistanceMeasure.init_ts_view: [status, tv]
DistanceMeasure_init_ts_view(tv, index, start, length, dim) ==
    [status |-> 0,
     tv |-> [tv EXCEPT !.index = index, !.dim = dim, !.start = start,
                       !.length = length, !.mean = NAN, !.std = NAN,
                       !.extra = NULL]]

\* _ts_view_update_statistics(s_ptr, t_ptr): s is a copy of the struct s_ptr
\* points to, and mean and std are assigned to the copy.  [status, tv, s]:
\* tv the struct behind s_ptr after the call, s the local copy.  The mean is
\* the rational ex/length, the std is represented by its square.
_ts_view_update_statistics(tv, td, buf) ==
    LET slice == ViewSlice(tv, td, buf)
        ex == Sum(slice, 1)
        ex2 == SumOfSquares(slice, 1)
        copy == [tv EXCEPT !.mean = Rat(ex, tv.length),
                           !.std = Rat(ex2 * tv.length - ex * ex, tv.length * tv.length)]
    IN  [status |-> 0, tv |-> tv, s |-> copy]

\* ScaledDistanceMeasure.init_ts_view: [status, tv]
ScaledDistanceMeasure_init_ts_view(tv, td, buf, index, start, length, dim) ==
    LET b == DistanceMeasure_init_ts_view(tv, index, start, length, dim)
        u == _ts_view_update_statistics(b.tv, td, buf)
    IN  [status |-> 0 - 1, tv |-> u.tv]

\* distance_measure.init_ts_view(td, tv, index, start, length, dim)
init_ts_view(m, tv, td, buf, index, start, length, dim) ==
    IF m = "ScaledDistanceMeasure"
    THEN ScaledDistanceMeasure_init_ts_view(tv, td, buf, index, start, length, dim)
    ELSE DistanceMeasure_init_ts_view(tv, index, start, length, dim)

\* ts_copy_init: [status, tc, heap].  data holds length elements nobody wrote.
ts_copy_init(h, dim, length, mean, std, ok) ==
    LET m == malloc(h, "copy", <<>>, ok)
    IN  [status |-> IF m.ptr = NULL THEN 0 - 1 ELSE 0,
         tc |-> [dim |-> dim, length |-> length, mean |-> mean, std |-> std,
                 data |-> m.ptr],
         heap |-> m.heap]

\* DistanceMeasure.init_ts_copy: the status of ts_copy_init is dropped and the
\* slice is written through tc.data.  [crash, status, tc, heap]
init_ts_copy(h, tv, td, buf, ok) ==
    LET r == ts_copy_init(h, tv.dim, tv.length, tv.mean, tv.std, ok)
    IN  IF r.tc.data.st # "buf"
        THEN [crash |-> tv.length > 0, status |-> 0, tc |-> r.tc, heap |-> r.heap]
        ELSE [crash |-> FALSE, status |-> 0, tc |-> r.tc,
              heap |-> [r.heap EXCEPT ![r.tc.data.id].data = ViewSlice(tv, td, buf)]]

\* new_distance_measure: [err, class]
new_distance_measure(metric) ==
    IF metric = "euclidean" THEN [err |-> "", class |-> "EuclideanDistance"]
    ELSE IF metric = "callable" THEN [err |-> "", class |-> "FuncDistanceMeasure"]
    ELSE [err |-> "ValueError", class |-> "none"]

\* ------------------------------------------------------------ call results
NoRet ==
    [kind |-> "none", exc |-> "", single |-> FALSE, with_second |-> FALSE,
     d |-> <<>>, i |-> <<>>, i_set |-> <<>>, m |-> <<>>, md |-> <<>>]
Error(exc) == [NoRet EXCEPT !.kind = "error", !.exc = exc]
Crashed == [NoRet EXCEPT !.kind = "crash", !.exc = "SIGSEGV"]

Invocation(fn, t_index) == [fn |-> fn, t_index |-> t_index]

NoLocals ==
    [min_dist |-> 0, min_index |-> 0, min_index_set |-> FALSE,
     matches |-> Uninit, distances |-> Uninit,
     n_matches |-> 0, n_matches_set |-> FALSE,
     k |-> 0, dist |-> <<>>, ind |-> <<>>, ind_set |-> <<>>,
     match_list |-> <<>>, distance_list |-> <<>>,
     status |-> 0, unsupported |-> FALSE, ub |-> <<>>, tv |-> NoView,
     func_args |-> <<>>, view_frees |-> 0]

\* the defaults of the keyword arguments
DefaultArgs ==
    [dim |-> 0,
     sample |-> [kind |-> "none", val |-> 0, seq |-> <<>>, container |-> "none"],
     metric |-> "euclidean", subsequence_distance |-> TRUE,
     return_index |-> FALSE, threshold |-> [inf |-> TRUE, sq |-> 0],
     return_distance |-> FALSE]

Init ==
    /\ op = "none"
    /\ pc = "start"
    /\ x = NdArray(<<0, 0>>, <<>>)
    /\ s = <<>>
    /\ arg = DefaultArgs
    /\ sd = NoDatabase
    /\ measure = "none"
    /\ shape = NoCopy
    /\ heap = <<>>
    /\ loc = NoLocals
    /\ ret = NoRet
    /\ log = <<>>

\* the call ends: it returns or raises
Finish(r) == pc' = "done" /\ ret' = r
\* the process dies
Die == pc' = "crashed" /\ ret' = Crashed

\* sample is None: the only sample, or all of them
DefaultSample(sample, n) ==
    IF sample.kind # "none" THEN sample
    ELSE IF n = 1
    THEN [kind |-> "int", val |-> 0, seq |-> <<>>, container |-> "none"]
    ELSE [kind |-> "seq", val |-> 0, seq |-> [j \in 1..n |-> j - 1],
          container |-> "ndarray"]

\* A Python sequence passed where a size_t is expected: an ndarray of one
\* element converts to it, anything else raises TypeError.  [err, val]
SeqAsSizeT(sample) ==
    IF sample.container = "ndarray" /\ Len(sample.seq) = 1
    THEN IF sample.seq[1] < 0
         THEN [err |-> "OverflowError", val |-> 0]
         ELSE [err |-> "", val |-> sample.seq[1]]
    ELSE [err |-> "TypeError", val |-> 0]

\* ================================================================ distance()
\* lines 424-426
distance_validate ==
    /\ pc = "start"
    /\ \E shapelet \in RawShapelets, data \in RawData :
        /\ s' = shapelet
        /\ x' = _validate_data(data)
    /\ op' = "distance"
    /\ pc' = "distance_sample"
    /\ UNCHANGED <<arg, sd, measure, shape, heap, loc, ret, log>>

\* lines 427-431
distance_default_sample ==
    /\ pc = "distance_sample"
    /\ \E sample \in SampleArgs(x.shape[1]) :
        arg' = [arg EXCEPT !.sample = DefaultSample(sample, x.shape[1])]
    /\ pc' = "distance_database"
    /\ UNCHANGED <<op, x, s, sd, measure, shape, heap, loc, ret, log>>

\* line 432
distance_database ==
    /\ pc = "distance_database"
    /\ LET r == ts_database_new(x)
       IN  IF r.err # ""
           THEN Finish(Error(r.err)) /\ UNCHANGED sd
           ELSE sd' = r.sd /\ pc' = "distance_check_dim" /\ UNCHANGED ret
    /\ UNCHANGED <<op, x, s, arg, measure, shape, heap, loc, log>>

\* line 434
distance_check_dim ==
    /\ pc = "distance_check_dim"
    /\ \E dim \in (0 - 1)..MaxDims :
        /\ arg' = [arg EXCEPT !.dim = dim]
        /\ IF _check_dim(dim, sd.n_dims)
           THEN Finish(Error("ValueError"))
           ELSE pc' = "distance_new_measure" /\ UNCHANGED ret
    /\ UNCHANGED <<op, x, s, sd, measure, shape, heap, loc, log>>

\* lines 441-443
distance_new_measure ==
    /\ pc = "distance_new_measure"
    /\ \E metric \in MetricArgs :
        LET r == new_distance_measure(metric)
        IN  /\ arg' = [arg EXCEPT !.metric = metric]
            /\ IF r.err # ""
               THEN Finish(Error(r.err)) /\ UNCHANGED measure
               ELSE measure' = r.class /\ pc' = "distance_check_length"
                    /\ UNCHANGED ret
    /\ UNCHANGED <<op, x, s, sd, shape, heap, loc, log>>

\* lines 445-457
distance_check_length ==
    /\ pc = "distance_check_length"
    /\ \E sub \in BOOLEAN :
        /\ arg' = [arg EXCEPT !.subsequence_distance = sub]
        /\ IF ~sub /\ ~support_unaligned(measure) /\ Len(s) # sd.n_timestep
           THEN Finish(Error("ValueError"))
           ELSE IF ~support_unaligned(measure) /\ Len(s) > sd.n_timestep
           THEN Finish(Error("ValueError"))
           ELSE pc' = "distance_init_copy" /\ UNCHANGED ret
    /\ UNCHANGED <<op, x, s, sd, measure, shape, heap, loc, log>>

\* lines 460-461: the status init_ts_copy_from_ndarray returns is dropped
distance_init_copy ==
    /\ pc = "distance_init_copy"
    /\ \E ok \in BOOLEAN :
        LET r == init_ts_copy_from_ndarray(heap, s, arg.dim, ok)
        IN  shape' = r.tc /\ heap' = r.heap
    /\ pc' = "distance_dispatch"
    /\ UNCHANGED <<op, x, s, arg, sd, measure, loc, ret, log>>

\* lines 463-470, for a sample index that is a Python int: the native call
\* and min_index after it.  Each outcome is [kind, exc, val, idx_written, idx].
distance_one(sub, sample) ==
    IF sample < 0
    THEN {Raise("OverflowError")}
    ELSE IF sub
    THEN ts_copy_sub_distance(measure, shape, sd, x.buf, heap, sample)
    ELSE {IF o.kind = "ok" THEN [o EXCEPT !.idx_written = TRUE, !.idx = 0] ELSE o :
            o \in ts_copy_distance(measure, shape, sd, x.buf, heap, sample)}

\* the native function a call with this sample index enters, if any
distance_invokes(sub, sample) ==
    IF sample < 0 THEN <<>>
    ELSE <<Invocation(IF sub THEN "ts_copy_sub_distance" ELSE "ts_copy_distance",
                      sample)>>

\* the locals after a native call with outcome o that entered the measure
\* (entered: the arguments converted): a callable-backed measure that did not
\* crash has called func once
distance_called(l, o, entered) ==
    IF measure = "FuncDistanceMeasure" /\ entered /\ o.kind # "crash"
    THEN [l EXCEPT !.func_args =
            Append(@, FuncDistanceMeasure_func_args(shape.length, sd))]
    ELSE l

\* lines 462-475
distance_single ==
    /\ pc = "distance_dispatch"
    /\ arg.sample.kind = "int"
    /\ \E o \in distance_one(arg.subsequence_distance, arg.sample.val),
          return_index \in BOOLEAN, g \in GarbageIndexes :
        /\ arg' = [arg EXCEPT !.return_index = return_index]
        /\ log' = log \o distance_invokes(arg.subsequence_distance, arg.sample.val)
        /\ IF o.kind = "crash" THEN Die /\ UNCHANGED loc
           ELSE IF o.kind = "raise"
           THEN /\ Finish(Error(o.exc))
                /\ loc' = distance_called(loc, o,
                        distance_invokes(arg.subsequence_distance,
                                         arg.sample.val) # <<>>)
           ELSE LET min_index == IF o.idx_written THEN o.idx ELSE g
                IN  /\ loc' = [distance_called(loc, o, TRUE) EXCEPT
                                          !.min_dist = o.val,
                                          !.min_index = min_index,
                                          !.min_index_set = o.idx_written]
                    /\ Finish([NoRet EXCEPT
                            !.kind = "value", !.single = TRUE,
                            !.with_second = return_index,
                            !.d = <<o.val>>,
                            !.i = IF return_index THEN <<min_index>> ELSE <<>>,
                            !.i_set = IF return_index THEN <<o.idx_written>> ELSE <<>>])
    /\ UNCHANGED <<op, x, s, sd, measure, shape, heap>>

\* lines 476-479
distance_batch_begin ==
    /\ pc = "distance_dispatch"
    /\ arg.sample.kind = "seq"
    /\ loc' = [loc EXCEPT !.k = 0, !.dist = <<>>, !.ind = <<>>, !.ind_set = <<>>]
    /\ pc' = "distance_batch_loop"
    /\ UNCHANGED <<op, x, s, arg, sd, measure, shape, heap, ret, log>>

\* lines 481-489, for the element i of samples: the native call and min_index
\* after it.  In the whole-series branch the call is given sample, the whole
\* sequence, where the sample index i is meant.
distance_batch_one(sub, sample, i) ==
    IF sub
    THEN IF i < 0 THEN {Raise("OverflowError")}
         ELSE ts_copy_sub_distance(measure, shape, sd, x.buf, heap, i)
    ELSE LET c == SeqAsSizeT(sample)
         IN  IF c.err # "" THEN {Raise(c.err)}
             ELSE {IF o.kind = "ok" THEN [o EXCEPT !.idx_written = TRUE, !.idx = 0]
                   ELSE o :
                     o \in ts_copy_distance(measure, shape, sd, x.buf, heap, c.val)}

distance_batch_invokes(sub, sample, i) ==
    IF sub
    THEN IF i < 0 THEN <<>> ELSE <<Invocation("ts_copy_sub_distance", i)>>
    ELSE IF SeqAsSizeT(sample).err # "" THEN <<>>
         ELSE <<Invocation("ts_copy_distance", SeqAsSizeT(sample).val)>>

\* lines 480-492: one iteration of the loop over samples
distance_batch_step ==
    /\ pc = "distance_batch_loop"
    /\ loc.k < Len(arg.sample.seq)
    /\ LET i == arg.sample.seq[loc.k + 1]
           sub == arg.subsequence_distance
       IN  \E o \in distance_batch_one(sub, arg.sample, i), g \in GarbageIndexes :
            /\ log' = log \o distance_batch_invokes(sub, arg.sample, i)
            /\ IF o.kind = "crash" THEN Die /\ UNCHANGED loc
               ELSE IF o.kind = "raise"
               THEN /\ Finish(Error(o.exc))
                    /\ loc' = distance_called(loc, o,
                            distance_batch_invokes(sub, arg.sample, i) # <<>>)
               ELSE LET written == o.idx_written \/ loc.min_index_set
                        min_index ==
                            IF o.idx_written THEN o.idx
                            ELSE IF loc.min_index_set \/ loc.k > 0 THEN loc.min_index
                            ELSE g
                    IN  /\ loc' = [distance_called(loc, o, TRUE) EXCEPT
                                !.k = @ + 1,
                                !.min_dist = o.val,
                                !.min_index = min_index,
                                !.min_index_set = written,
                                !.dist = Append(@, o.val),
                                !.ind = Append(@, min_index),
                                !.ind_set = Append(@, written)]
                        /\ UNCHANGED <<pc, ret>>
    /\ UNCHANGED <<op, x, s, arg, sd, measure, shape, heap>>

\* lines 494-497
distance_batch_return ==
    /\ pc = "distance_batch_loop"
    /\ loc.k = Len(arg.sample.seq)
    /\ \E return_index \in BOOLEAN :
        /\ arg' = [arg EXCEPT !.return_index = return_index]
        /\ Finish([NoRet EXCEPT
                !.kind = "value", !.single = FALSE, !.with_second = return_index,
                !.d = loc.dist,
                !.i = IF return_index THEN loc.ind ELSE <<>>,
                !.i_set = IF return_index THEN loc.ind_set ELSE <<>>])
    /\ UNCHANGED <<op, x, s, sd, measure, shape, heap, loc, log>>

\* ================================================================= matches()
\* lines 499-501
matches_validate ==
    /\ pc = "start"
    /\ \E shapelet \in RawShapelets, data \in RawData :
        /\ s' = shapelet
        /\ x' = _validate_data(data)
    /\ op' = "matches"
    /\ pc' = "matches_check_dim"
    /\ UNCHANGED <<arg, sd, measure, shape, heap, loc, ret, log>>

\* line 502: dim is checked against the rank of x
matches_check_dim ==
    /\ pc = "matches_check_dim"
    /\ \E dim \in (0 - 1)..MaxDims :
        /\ arg' = [arg EXCEPT !.dim = dim]
        /\ IF _check_dim(dim, x.ndim)
           THEN Finish(Error("ValueError"))
           ELSE pc' = "matches_sample" /\ UNCHANGED ret
    /\ UNCHANGED <<op, x, s, sd, measure, shape, heap, loc, log>>

\* lines 503-507
matches_default_sample ==
    /\ pc = "matches_sample"
    /\ \E sample \in SampleArgs(x.shape[1]) :
        arg' = [arg EXCEPT !.sample = DefaultSample(sample, x.shape[1])]
    /\ pc' = "matches_database"
    /\ UNCHANGED <<op, x, s, sd, measure, shape, heap, loc, ret, log>>

\* line 509
matches_database ==
    /\ pc = "matches_database"
    /\ LET r == ts_database_new(x)
       IN  IF r.err # ""
           THEN Finish(Error(r.err)) /\ UNCHANGED sd
           ELSE sd' = r.sd /\ pc' = "matches_new_measure" /\ UNCHANGED ret
    /\ UNCHANGED <<op, x, s, arg, measure, shape, heap, loc, log>>

\* lines 515-517
matches_new_measure ==
    /\ pc = "matches_new_measure"
    /\ \E metric \in MetricArgs :
        LET r == new_distance_measure(metric)
        IN  /\ arg' = [arg EXCEPT !.metric = metric]
            /\ IF r.err # ""
               THEN Finish(Error(r.err)) /\ UNCHANGED measure
               ELSE measure' = r.class /\ pc' = "matches_init_copy" /\ UNCHANGED ret
    /\ UNCHANGED <<op, x, s, sd, shape, heap, loc, log>>

\* lines 518-519: the status init_ts_copy_from_ndarray returns is dropped
matches_init_copy ==
    /\ pc = "matches_init_copy"
    /\ \E ok \in BOOLEAN, threshold \in Thresholds :
        LET r == init_ts_copy_from_ndarray(heap, s, arg.dim, ok)
        IN  /\ shape' = r.tc /\ heap' = r.heap
            /\ arg' = [arg EXCEPT !.threshold = threshold]
    /\ pc' = "matches_dispatch"
    /\ UNCHANGED <<op, x, s, sd, measure, loc, ret, log>>

\* The statements after a call of ts_copy_sub_matches that returned: the two
\* conversions and the two calls of free (lines 526-529, 542-547).  o is the
\* outcome of the call, g what n_matches holds if the call did not set it.
\* [crash, heap, loc, match_array, distance_array]
matches_convert(h, l, o, g) ==
    LET m1 == malloc(h, "matches", o.offsets, o.written)
        m2 == malloc(m1.heap, "distances", o.dists, o.written)
        matches == IF o.written THEN m1.ptr ELSE l.matches
        distances == IF o.written THEN m2.ptr ELSE l.distances
        n_matches == IF o.written THEN Len(o.offsets)
                     ELSE IF l.n_matches_set THEN l.n_matches ELSE g
        wild == matches.st = "uninit"
        ub == l.ub
              \o (IF o.written \/ l.n_matches_set THEN <<>> ELSE <<"read n_matches">>)
              \o (IF wild /\ n_matches > 0 THEN <<"read matches">> ELSE <<>>)
              \o (IF wild /\ n_matches = 0 THEN <<"free matches">> ELSE <<>>)
        l2 == [l EXCEPT !.matches = matches, !.distances = distances,
                        !.n_matches = n_matches,
                        !.n_matches_set = o.written \/ l.n_matches_set,
                        !.ub = ub]
    IN  IF wild /\ n_matches > 0
        THEN [crash |-> TRUE, heap |-> h, loc |-> l2,
              match_array |-> None, distance_array |-> None]
        ELSE [crash |-> FALSE,
              heap |-> free(free(m2.heap, distances), matches),
              loc |-> l2,
              match_array |->
                  IF wild THEN None
                  ELSE _new_match_array(m2.heap[matches.id].data, n_matches),
              distance_array |->
                  IF wild THEN None
                  ELSE _new_distance_array(m2.heap[distances.id].data, n_matches)]

\* lines 521-534
matches_single ==
    /\ pc = "matches_dispatch"
    /\ arg.sample.kind = "int"
    /\ IF _check_sample(arg.sample.val, sd.n_samples)
       THEN Finish(Error("ValueError")) /\ UNCHANGED <<arg, heap, loc, log>>
       ELSE \E o \in ts_copy_sub_matches(measure, shape, sd, x.buf, heap,
                                         arg.sample.val, arg.threshold),
               return_distance \in BOOLEAN, g \in GarbageIndexes :
            /\ arg' = [arg EXCEPT !.return_distance = return_distance]
            /\ log' = Append(log, Invocation("ts_copy_sub_matches", arg.sample.val))
            /\ IF o.kind = "crash" THEN Die /\ UNCHANGED <<heap, loc>>
               ELSE IF o.kind = "raise"
               THEN /\ Finish(Error(o.exc))
                    /\ loc' = [loc EXCEPT !.unsupported = (o.exc = "NotImplementedError")]
                    /\ UNCHANGED heap
               ELSE LET c == matches_convert(heap, loc, o, g)
                    IN  /\ heap' = c.heap
                        /\ loc' = c.loc
                        /\ IF c.crash THEN Die
                           ELSE Finish([NoRet EXCEPT
                                   !.kind = "value", !.single = TRUE,
                                   !.with_second = return_distance,
                                   !.m = <<c.match_array>>,
                                   !.md = IF return_distance
                                          THEN <<c.distance_array>> ELSE <<>>])
    /\ UNCHANGED <<op, x, s, sd, measure, shape>>

\* lines 535-538
matches_batch_begin ==
    /\ pc = "matches_dispatch"
    /\ arg.sample.kind = "seq"
    /\ loc' = [loc EXCEPT !.k = 0, !.match_list = <<>>, !.distance_list = <<>>]
    /\ pc' = "matches_batch_loop"
    /\ UNCHANGED <<op, x, s, arg, sd, measure, shape, heap, ret, log>>

\* lines 539-547: one iteration of the loop over samples
matches_batch_step ==
    /\ pc = "matches_batch_loop"
    /\ loc.k < Len(arg.sample.seq)
    /\ LET i == arg.sample.seq[loc.k + 1]
       IN  IF i < 0
           THEN Finish(Error("OverflowError")) /\ UNCHANGED <<heap, loc, log>>
           ELSE IF _check_sample(i, sd.n_samples)
           THEN Finish(Error("ValueError")) /\ UNCHANGED <<heap, loc, log>>
           ELSE \E o \in ts_copy_sub_matches(measure, shape, sd, x.buf, heap,
                                             i, arg.threshold),
                   g \in GarbageIndexes :
                /\ log' = Append(log, Invocation("ts_copy_sub_matches", i))
                /\ IF o.kind = "crash" THEN Die /\ UNCHANGED <<heap, loc>>
                   ELSE IF o.kind = "raise"
                   THEN /\ Finish(Error(o.exc))
                        /\ loc' = [loc EXCEPT
                                !.unsupported = (o.exc = "NotImplementedError")]
                        /\ UNCHANGED heap
                   ELSE LET c == matches_convert(heap, loc, o, g)
                        IN  /\ heap' = c.heap
                            /\ IF c.crash THEN Die /\ loc' = c.loc
                               ELSE /\ loc' = [c.loc EXCEPT
                                           !.k = @ + 1,
                                           !.match_list = Append(@, c.match_array),
                                           !.distance_list = Append(@, c.distance_array)]
                                    /\ UNCHANGED <<pc, ret>>
    /\ UNCHANGED <<op, x, s, arg, sd, measure, shape>>

\* lines 549-552
matches_batch_return ==
    /\ pc = "matches_batch_loop"
    /\ loc.k = Len(arg.sample.seq)
    /\ \E return_distance \in BOOLEAN :
        /\ arg' = [arg EXCEPT !.return_distance = return_distance]
        /\ Finish([NoRet EXCEPT
                !.kind = "value", !.single = FALSE, !.with_second = return_distance,
                !.m = loc.match_list,
                !.md = IF return_distance THEN loc.distance_list ELSE <<>>])
    /\ UNCHANGED <<op, x, s, sd, measure, shape, heap, loc, log>>

\* ======================================================== measure methods
\* the databases a caller of the measure methods holds
Databases == {d \in RawData : Len(d.shape) \in {2, 3}}
ViewMeasures == {"DistanceMeasure", "ScaledDistanceMeasure", "FuncDistanceMeasure"}

\* distance_measure.init_ts_view on a subsequence of the database
init_ts_view_call ==
    /\ pc = "start"
    /\ \E data \in Databases, m \in ViewMeasures :
        LET arr == _validate_data(data)
            td == ts_database_new(arr).sd
        IN  \E index \in 0..(td.n_samples - 1), dim \in 0..(td.n_dims - 1),
               start \in 0..(td.n_timestep - 1) :
            \E length \in 1..(td.n_timestep - start) :
                LET r == init_ts_view(m, loc.tv, td, arr.buf, index, start, length, dim)
                IN  /\ x' = arr
                    /\ sd' = td
                    /\ measure' = m
                    /\ loc' = [loc EXCEPT !.tv = r.tv, !.status = r.status]
    /\ op' = "init_ts_view"
    /\ pc' = "view_ready"
    /\ UNCHANGED <<s, arg, shape, heap, ret, log>>

\* distance_measure.init_ts_copy on the view
init_ts_copy_call ==
    /\ pc = "view_ready"
    /\ \E ok \in BOOLEAN :
        LET r == init_ts_copy(heap, loc.tv, sd, x.buf, ok)
        IN  /\ shape' = r.tc
            /\ heap' = r.heap
            /\ IF r.crash
               THEN Die /\ loc' = [loc EXCEPT !.ub = Append(@, "write data")]
               ELSE /\ pc' = "copy_ready"
                    /\ loc' = [loc EXCEPT !.status = r.status]
                    /\ UNCHANGED ret
    /\ op' = "init_ts_copy"
    /\ UNCHANGED <<x, s, arg, sd, measure, log>>

\* distance_measure.ts_view_sub_distance on the view and a sample of the
\* database
ts_view_sub_distance_call ==
    /\ pc = "view_ready"
    /\ op = "init_ts_view"
    /\ \E t_index \in 0..(sd.n_samples - 1) :
        \E o \in ts_view_sub_distance(measure, loc.tv, sd, x.buf, t_index) :
            /\ log' = Append(log, Invocation("ts_view_sub_distance", t_index))
            /\ IF o.kind = "crash" THEN Die /\ UNCHANGED loc
               ELSE /\ loc' = [loc EXCEPT
                            !.min_dist = o.val,
                            !.func_args =
                                IF measure = "FuncDistanceMeasure"
                                THEN Append(@, FuncDistanceMeasure_func_args(
                                                    loc.tv.length, sd))
                                ELSE @]
                    /\ IF o.kind = "raise"
                       THEN Finish(Error(o.exc))
                       ELSE Finish([NoRet EXCEPT !.kind = "value", !.single = TRUE,
                                                 !.d = <<o.val>>])
    /\ op' = "ts_view_sub_distance"
    /\ UNCHANGED <<x, s, arg, sd, measure, shape, heap>>

\* ts_view_init on a view the caller declared
ts_view_init_call ==
    /\ pc = "start"
    /\ loc' = [loc EXCEPT !.tv = ts_view_init(@)]
    /\ op' = "ts_view_init"
    /\ pc' = "view_life"
    /\ UNCHANGED <<x, s, arg, sd, measure, shape, heap, ret, log>>

\* the owner of an initialised view attaches a payload: tv.extra = malloc(..)
attach_extra ==
    /\ pc \in {"view_ready", "view_life"}
    /\ op \in {"ts_view_init", "init_ts_view"}
    /\ LET m == malloc(heap, "extra", <<>>, TRUE)
       IN  /\ heap' = m.heap
           /\ loc' = [loc EXCEPT !.tv.extra = m.ptr]
    /\ op' = "attach_extra"
    /\ pc' = "view_life"
    /\ UNCHANGED <<x, s, arg, sd, measure, shape, ret, log>>

\* ts_view_free on the view; freeing a pointer no allocation returned may end
\* the process
ts_view_free_call ==
    /\ pc \in {"view_ready", "view_life"}
    /\ op \in {"ts_view_init", "init_ts_view", "attach_extra", "ts_view_free"}
    /\ loc.view_frees < MaxViewFrees
    /\ \E garbage \in GarbagePointers, survives \in BOOLEAN :
        LET r == ts_view_free(heap, loc.tv, garbage)
        IN  /\ heap' = r.heap
            /\ loc' = [loc EXCEPT
                        !.tv = r.tv,
                        !.view_frees = @ + 1,
                        !.ub = IF r.wild THEN Append(@, "free extra") ELSE @]
            /\ IF r.wild /\ ~survives
               THEN Die
               ELSE pc' = "view_life" /\ UNCHANGED ret
    /\ op' = "ts_view_free"
    /\ UNCHANGED <<x, s, arg, sd, measure, shape, log>>

Next ==
    \/ distance_validate
    \/ distance_default_sample
    \/ distance_database
    \/ distance_check_dim
    \/ distance_new_measure
    \/ distance_check_length
    \/ distance_init_copy
    \/ distance_single
    \/ distance_batch_begin
    \/ distance_batch_step
    \/ distance_batch_return
    \/ matches_validate
    \/ matches_check_dim
    \/ matches_default_sample
    \/ matches_database
    \/ matches_new_measure
    \/ matches_init_copy
    \/ matches_single
    \/ matches_batch_begin
    \/ matches_batch_step
    \/ matches_batch_return
    \/ init_ts_view_call
    \/ init_ts_copy_call
    \/ ts_view_sub_distance_call
    \/ ts_view_init_call
    \/ attach_extra
    \/ ts_view_free_call

Spec == Init /\ [][Next]_vars

\* =============================================================== properties
Facade == op \in {"distance", "matches"}
Ended == pc \in {"done", "crashed"}

\* the target length T and the pattern length L of the call
T == x.shape[x.ndim]
L == Len(s)

\* the number of dimensions of the data: 1 for rank 2, shape[1] for rank 3
NDims == IF x.ndim = 3 THEN x.shape[2] ELSE 1

\* element [i, d, t] of the data (i, d, t counted from 0), by its indices
Element(i, d, t) == x.buf[(i * NDims + d) * T + t + 1]
\* the series of sample i in dimension d
Series(i, d) == [t \in 1..T |-> Element(i, d, t - 1)]

ValidSample(i) == 0 <= i /\ i < x.shape[1]
ValidDim == 0 <= arg.dim /\ arg.dim < NDims

\* the sample indices the call was asked for, in order
Requested ==
    IF arg.sample.kind = "int" THEN <<arg.sample.val>> ELSE arg.sample.seq

\* C1: a batch call of distance() on valid indices returns arrays whose j-th
\* entries are what the single-sample call on the j-th index returns, in
\* subsequence mode and in whole-series mode (and it fails only as a
\* single-sample call fails).
C1_BatchEqualsSingle ==
    (/\ op = "distance" /\ pc = "done" /\ arg.sample.kind = "seq"
     /\ shape.data.st = "buf"
     /\ \A j \in 1..Len(Requested) : ValidSample(Requested[j]))
    => LET single(j) == distance_one(arg.subsequence_distance, Requested[j])
       IN  \/ /\ ret.kind = "value"
              /\ Len(ret.d) = Len(Requested)
              /\ \A j \in 1..Len(Requested) :
                    \E o \in single(j) :
                        /\ o.kind = "ok"
                        /\ ret.d[j] = o.val
                        /\ (ret.with_second /\ o.idx_written) => ret.i[j] = o.idx
           \/ /\ ret.kind = "error"
              /\ \E j \in 1..Len(Requested) :
                    \E o \in single(j) : o.kind = "raise" /\ o.exc = ret.exc

\* C2: when a requested sample index is < 0 or >= n_samples, distance() and
\* matches() fail with an error, and no measure computation has been invoked
\* for any sample.
C2_BadSampleFailsFirst ==
    (/\ Facade
     /\ \E j \in 1..Len(Requested) : ~ValidSample(Requested[j]))
    => /\ log = <<>>
       /\ Ended => ret.kind = "error"

\* C3: in distance() and matches() a measure is constructed only for a dim
\* with 0 <= dim < n_dims of the data; dim = 1 on 2-D data is rejected.
C3_DimChecked ==
    (Facade /\ measure # "none") => ValidDim

\* C4: for a measure without unaligned support and L > T, distance() in
\* subsequence mode and matches() fail with an error before the PatternCopy
\* is built and before any computation; with L = T the length check of
\* distance() does not fail.
C4_LongPatternRejected ==
    /\ (/\ Facade /\ measure # "none" /\ ~support_unaligned(measure)
        /\ pc \notin {"distance_check_length", "matches_init_copy"}
        /\ L > T
        /\ op = "distance" => arg.subsequence_distance)
       => /\ shape.data.st = "uninit"
          /\ log = <<>>
          /\ pc = "done" /\ ret.kind = "error" /\ ret.exc = "ValueError"
    /\ (/\ Facade /\ measure # "none" /\ L = T /\ pc = "done")
       => shape.data.st # "uninit"

\* C5: when distance() or matches() has returned or raised, every buffer
\* allocated during the call has been freed exactly once.
C5_BuffersFreedOnce ==
    (Facade /\ pc = "done")
    => \A b \in 1..Len(heap) : ~heap[b].live /\ heap[b].frees = 1

\* C6: when the data buffer of the PatternCopy could not be allocated, the
\* operation fails with an allocation error: nothing is written through the
\* null buffer, no measure computation runs, no result is returned.
C6_AllocationFailureFails ==
    shape.data.st = "null"
    => /\ pc = "done"
       /\ ret.kind = "error" /\ ret.exc = "MemoryError"
       /\ log = <<>>
       /\ loc.ub = <<>>

\* the capabilities the class leaves at the base implementation
LeftAtBase(m) ==
    IF m = "EuclideanDistance" THEN {}
    ELSE IF m = "FuncDistanceMeasure" THEN {"ts_copy_sub_matches"}
    ELSE {"ts_copy_sub_matches", "ts_copy_sub_distance", "ts_copy_distance"}

\* C7: a facade call that asks its measure for a capability the measure leaves
\* at the base implementation ends with NotImplementedError: it returns no
\* distance and no match array, and it neither reads nor frees match buffers
\* that were not allocated.
C7_UnsupportedFails ==
    (/\ Facade /\ log # <<>>
     /\ log[Len(log)].fn \in LeftAtBase(measure))
    => /\ pc = "done"
       /\ ret.kind = "error" /\ ret.exc = "NotImplementedError"
       /\ ret.d = <<>> /\ ret.m = <<>> /\ ret.md = <<>>
       /\ loc.ub = <<>>
       /\ loc.matches.st = "uninit" /\ loc.distances.st = "uninit"
       /\ \A b \in 1..Len(heap) : heap[b].kind = "copy"

\* C7 witness: matches() with a user callable has asked for the matches of a
\* valid sample and has raised NotImplementedError
C7_Witness ==
    /\ op = "matches" /\ measure = "FuncDistanceMeasure" /\ pc = "done"
    /\ log # <<>> /\ log[Len(log)].fn = "ts_copy_sub_matches"
    /\ ret.kind = "error" /\ ret.exc = "NotImplementedError"

\* the mean of the slice a view refers to, and the square of its std
SliceMean(tv) ==
    LET slice == [i \in 1..tv.length |-> Element(tv.index, tv.dim, tv.start + i - 1)]
    IN  Rat(Sum(slice, 1), tv.length)
SliceVariance(tv) ==
    LET slice == [i \in 1..tv.length |-> Element(tv.index, tv.dim, tv.start + i - 1)]
    IN  Rat(SumOfSquares(slice, 1) * tv.length - Sum(slice, 1) * Sum(slice, 1),
            tv.length * tv.length)

\* C8: init_ts_view of a scaled measure returns a non-negative status and
\* leaves the view with the mean and the std of the slice, not NaN.
C8_ScaledViewStatistics ==
    (pc = "view_ready" /\ measure = "ScaledDistanceMeasure")
    => /\ loc.status >= 0
       /\ ~loc.tv.mean.nan /\ ~loc.tv.std.nan
       /\ loc.tv.mean = SliceMean(loc.tv)
       /\ loc.tv.std = SliceVariance(loc.tv)

\* the offsets of the windows of sample i strictly below the threshold
QualifyingOffsets(i) ==
    {o \in 0..(T - L) :
        Below(WindowDistance(s, Series(i, arg.dim), o), arg.threshold)}

\* the elements of a set of integers in ascending order
Ascending(S) ==
    CHOOSE q \in [1..Cardinality(S) -> S] :
        \A a, b \in 1..Cardinality(S) : a < b => q[a] < q[b]

\* C9: for L <= T, matches() returns for each requested sample exactly the
\* offsets in 0..T-L whose window is strictly below the threshold, ascending,
\* with the distance of the k-th offset as the k-th distance; every offset
\* for threshold +infinity; None when no offset qualifies.
C9_MatchesAreQualifyingOffsets ==
    (/\ op = "matches" /\ pc = "done" /\ ret.kind = "value"
     /\ ValidDim /\ L <= T)
    => /\ Len(ret.m) = Len(Requested)
       /\ \A j \in 1..Len(Requested) :
            LET i == Requested[j]
                Q == QualifyingOffsets(i)
            IN  /\ ValidSample(i)
                /\ arg.threshold.inf => Q = 0..(T - L)
                /\ ret.m[j] = (IF Q = {} THEN None ELSE Array(Ascending(Q)))
                /\ ret.with_second =>
                    ret.md[j] =
                        (IF Q = {} THEN None
                         ELSE Array([k \in 1..Cardinality(Q) |->
                                WindowDistance(s, Series(i, arg.dim), Ascending(Q)[k])]))

\* C9 witness: a batch call of matches() returned, with distances, for some
\* sample several offsets but not all, and for another sample None
C9_Witness ==
    /\ op = "matches" /\ pc = "done" /\ ret.kind = "value" /\ ValidDim /\ L <= T
    /\ ~ret.single /\ ret.with_second /\ ~arg.threshold.inf
    /\ \E j \in 1..Len(ret.m) :
        ~ret.m[j].none /\ Len(ret.m[j].a) > 1 /\ Len(ret.m[j].a) < T - L + 1
    /\ \E j \in 1..Len(ret.m) : ret.m[j].none

\* C10: distance(subsequence_distance=True, return_index=True) on a valid
\* sample with L <= T returns (d, o): o in 0..T-L and written by the measure,
\* d the distance of the window at o, d minimal over the offsets 0..T-L and o
\* the lowest offset of the minimum, for every measure.
C10_BestWindowAndOffset ==
    (/\ op = "distance" /\ pc = "done" /\ ret.kind = "value"
     /\ arg.subsequence_distance /\ ret.with_second /\ L <= T
     /\ shape.data.st = "buf"
     /\ \A j \in 1..Len(Requested) : ValidSample(Requested[j]))
    => \A j \in 1..Len(Requested) :
        LET row == Series(Requested[j], arg.dim)
            o == ret.i[j]
        IN  /\ ret.i_set[j]
            /\ o \in 0..(T - L)
            /\ ret.d[j] = WindowDistance(s, row, o)
            /\ \A q \in 0..(T - L) :
                /\ ret.d[j] <= WindowDistance(s, row, q)
                /\ WindowDistance(s, row, q) = ret.d[j] => o <= q

\* C11: the callable-backed measure calls the user callable with two buffers
\* of equal length: in ts_copy_sub_distance and in ts_view_sub_distance, for
\* every pattern length L <= T, both arguments of every call have the same
\* number of elements.
C11_EqualLengthArguments ==
    \A k \in 1..Len(loc.func_args) :
        loc.func_args[k].x <= sd.n_timestep
        => loc.func_args[k].x = loc.func_args[k].y

\* C12: for a measure that keeps the default whole-series implementation and
\* a pattern as long as the sample, ts_copy_distance returns what
\* ts_copy_sub_distance returns; hence distance(subsequence_distance=False)
\* ends as distance(subsequence_distance=True) ends on the same arguments,
\* with the same distances, and reports offset 0.
C12_WholeSeriesEqualsBestWindow ==
    (/\ op = "distance" /\ pc = "done" /\ measure = "FuncDistanceMeasure"
     /\ ~arg.subsequence_distance /\ L = T
     /\ shape.data.st = "buf"
     /\ \A j \in 1..Len(Requested) : ValidSample(Requested[j]))
    => LET best(j) == ts_copy_sub_distance(measure, shape, sd, x.buf, heap, Requested[j])
           whole(j) == ts_copy_distance(measure, shape, sd, x.buf, heap, Requested[j])
       IN  /\ \A j \in 1..Len(Requested) :
                {o.val : o \in whole(j)} = {o.val : o \in best(j)}
           /\ \/ /\ ret.kind = "value"
                 /\ Len(ret.d) = Len(Requested)
                 /\ \A j \in 1..Len(Requested) :
                        /\ \E o \in best(j) : o.kind = "ok" /\ ret.d[j] = o.val
                        /\ ret.with_second => ret.i[j] = 0
              \/ /\ ret.kind = "error"
                 /\ \E j \in 1..Len(Requested) :
                        \E o \in best(j) : o.kind = "raise" /\ o.exc = ret.exc

\* the statements of distance() and matches() that precede ts_database_new
BeforeDatabase ==
    {"start", "distance_sample", "distance_database",
     "matches_check_dim", "matches_sample", "matches_database"}

\* the statements that follow ts_database_new; no later statement assigns sd
\* or x
DatabaseBuilt ==
    pc \in {"distance_check_dim", "matches_new_measure", "view_ready"}

\* the offset the database computes for sample i, dimension d, timestep t
Offset(i, d, t) ==
    i * sd.sample_stride + d * sd.dim_stride + t * sd.timestep_stride

\* the index triples of the database
Triples ==
    (0..(sd.n_samples - 1)) \X (0..(sd.n_dims - 1)) \X (0..(sd.n_timestep - 1))

\* C13: ts_database_new fails for an array whose rank is not 2 or 3; for an
\* accepted row-major array n_dims = 1 and dim_stride = 0 for rank 2 and
\* n_dims = shape[1] for rank 3, and for all i < n_samples, d < n_dims,
\* t < n_timestep the offset i*sample_stride + d*dim_stride + t*timestep_stride
\* lies inside the buffer and is the position of element [i, (d,) t] of the
\* array, distinct triples having distinct offsets.
C13_DatabaseAddressesElements ==
    /\ (Facade /\ pc \notin BeforeDatabase /\ x.ndim \notin {2, 3})
       => /\ pc = "done" /\ ret.kind = "error" /\ ret.exc = "ValueError"
          /\ sd = NoDatabase
    /\ sd # NoDatabase
       => /\ x.ndim \in {2, 3}
          /\ sd.n_samples = x.shape[1]
          /\ sd.n_timestep = x.shape[x.ndim]
          /\ x.ndim = 2 => (sd.n_dims = 1 /\ sd.dim_stride = 0)
          /\ x.ndim = 3 => sd.n_dims = x.shape[2]
          /\ DatabaseBuilt =>
                /\ \A tr \in Triples :
                    /\ InBuf(x.buf, Offset(tr[1], tr[2], tr[3]))
                    /\ Offset(tr[1], tr[2], tr[3])
                        = (tr[1] * NDims + tr[2]) * T + tr[3]
                /\ \A tr, ts \in Triples :
                    Offset(tr[1], tr[2], tr[3]) = Offset(ts[1], ts[2], ts[3])
                    => tr = ts

\* C13 witness: a database of several samples of several dimensions has been
\* built from a rank-3 array
C13_Witness ==
    /\ Facade /\ DatabaseBuilt /\ x.ndim = 3 /\ sd # NoDatabase
    /\ sd.n_samples > 1 /\ sd.n_dims > 1 /\ sd.n_timestep > 1

\* the payloads attached to a view
Payloads == {b \in 1..Len(heap) : heap[b].kind = "extra"}

\* C14: for a view initialised by ts_view_init or by a measure's
\* init_ts_view, then optionally given an extra payload, then passed to
\* ts_view_free one or more times: the payload is freed exactly once if one
\* was attached; ts_view_free never frees a pointer that neither the
\* initialisation nor the attachment set; a second ts_view_free does nothing.
C14_ExtraFreedOnce ==
    loc.view_frees > 0
    => /\ loc.ub = <<>>
       /\ pc # "crashed"
       /\ loc.tv.extra = NULL
       /\ \A b \in Payloads : ~heap[b].live /\ heap[b].frees = 1

====
